---- MODULE Spec2Model ----
(***************************************************************************)
(* Model of the earthquake statistics scripts.                             *)
(*                                                                         *)
(*   plot_earthquakes.py : get_data (with fallback to create_sample_data), *)
(*                         get_annual_statistics, print_summary            *)
(*   earthquakes.py      : get_data (no fallback), get_maximum             *)
(*                                                                         *)
(* One run of one script is one behaviour.  The inputs of a run are the    *)
(* outcome of the HTTP request, the document the server returns, the       *)
(* values drawn by the random generator and the time zone of the machine   *)
(* (date.fromtimestamp and datetime.timestamp use local time).             *)
(*                                                                         *)
(* Units.  Magnitudes are carried in tenths (2.5 is 25).  A millisecond    *)
(* timestamp t is carried as t / 3600000 (hours since the epoch), since    *)
(* TLC's integers are 32 bits wide; `timestamp / 1000` is then a           *)
(* multiplication by 3600.  The charts are not modelled.                   *)
(***************************************************************************)
EXTENDS Integers, Sequences, FiniteSets

VARIABLES
    script,               \* which script runs: "plot" or "eq"
    tz,                   \* UTC offset of the local time zone, in hours
    pc,                   \* position of the run
    net,                  \* what the HTTP request met (set by get_data)
    source,               \* "none", "api" or "sample": where data came from
    data,                 \* data['features']
    i,                    \* index of the next record of the running loop
    quakes_per_year,      \* plot: defaultdict(int)
    magnitudes_per_year,  \* plot: defaultdict(list)
    key_order,            \* plot: insertion order of the two dicts' keys
    avg_magnitudes,       \* plot: year -> mean magnitude, as num/den
    summary,              \* plot: what print_summary printed (<<>> before)
    max_magnitude,        \* eq: running maximum
    max_earthquake,       \* eq: index of the record referenced (0 is None)
    max_location,         \* eq: <<latitude, longitude>> (<<>> before)
    error                 \* exception that ended the run ("none" if none)

vars == <<script, tz, pc, net, source, data, i, quakes_per_year,
          magnitudes_per_year, key_order, avg_magnitudes, summary,
          max_magnitude, max_earthquake, max_location, error>>

(***************************************************************************)
(* Bounds                                                                  *)
(***************************************************************************)
\* longest features list the server returns
MaxLen == 3

\* iterations of the generator loop (range(1000) in the source, scaled)
NumSamples == 2

(***************************************************************************)
(* Values                                                                  *)
(***************************************************************************)
Scripts == {"plot", "eq"}

\* UTC offsets (hours) of the machines the script is run on
TimeZones == {-8, 0, 9}

\* a JSON field: absent key, null, a string, a number, or a number whose
\* date is outside the platform's range ("big")
Field(kind, val) == [kind |-> kind, val |-> val]

Absent == Field("absent", 0)

Null == Field("null", 0)

Str == Field("str", 0)

Num(n) == Field("num", n)

Big == Field("big", 0)

\* a feature: props is "dict" when feature['properties'] is an object and
\* "nondict" when it is null or a scalar; coordinates is [lon, lat, alt]
Quake(props, time, mag, lon, lat) ==
    [props |-> props, time |-> time, mag |-> mag,
     coordinates |-> <<lon, lat, 0>>]

\* 2000-12-31T20:00Z and 2001-07-01T12:00Z, as day * 24 + hour since the epoch
T2000 == 11322 * 24 + 20

T2001 == 11504 * 24 + 12

Quakes ==
    { Quake("dict", Num(T2000), Num(25), -1, 51),
      Quake("dict", Num(T2001), Num(40), -2, 52),
      Quake("dict", Num(T2001), Num(25), -3, 53),
      Quake("dict", Num(T2001), Num(-15), -4, 54),
      Quake("dict", Absent, Num(30), -5, 55),
      Quake("dict", Null, Num(30), -6, 56),
      Quake("dict", Str, Num(30), -7, 57),
      Quake("dict", Num(T2000), Absent, -8, 58),
      Quake("dict", Num(T2001), Null, -1, 50),
      Quake("dict", Num(T2001), Str, -2, 51),
      Quake("nondict", Absent, Absent, -3, 52),
      Quake("dict", Big, Num(30), -4, 53) }

\* the feature lists a response can carry
Docs == UNION { [1..n -> Quakes] : n \in 0..MaxLen }

\* HTTP statuses the server answers with
Statuses == {200, 404, 503}

EmptyDict == [k \in {} |-> 0]

Put(d, k, v) == [x \in (DOMAIN d) \cup {k} |-> IF x = k THEN v ELSE d[x]]

Ok(v) == [exc |-> "none", val |-> v]

Raise(e) == [exc |-> e, val |-> 0]

(***************************************************************************)
(* create_sample_data                                                      *)
(***************************************************************************)
\* days from 1970-01-01 to base_date = datetime(2000, 1, 1)
base_date == 10957

\* (end_date - base_date).days
days_range == 6858

\* values random.randint(0, days_range) is drawn from here
SampleDays == {0, 366, days_range}

\* values round(random.uniform(1.0, 6.0), 1) is drawn from here
SampleMags == {10, 60}

\* sample_timestamp with the naive datetime read as UTC, as
\* calendar.timegm(earthquake_time.timetuple()) would
sample_timestamp_utc(random_days, z) == (base_date + random_days) * 24

\* int(earthquake_time.timestamp() * 1000): earthquake_time is naive, so it
\* is local midnight of day base_date + random_days
sample_timestamp(random_days, z) == (base_date + random_days) * 24 - z

\* one appended feature: no geometry, properties with time, mag and place
sample_feature(random_days, magnitude, z) ==
    [props |-> "dict", time |-> Num(sample_timestamp(random_days, z)),
     mag |-> Num(magnitude), coordinates |-> << >>]

create_sample_data(draws, z) ==
    [k \in 1..Len(draws) |-> sample_feature(draws[k][1], draws[k][2], z)]

\* what the random generator can produce over the whole loop
SampleDraws == [1..NumSamples -> SampleDays \X SampleMags]

(***************************************************************************)
(* plot_earthquakes.py: get_year, get_magnitude, get_annual_statistics     *)
(***************************************************************************)
\* year of the proleptic Gregorian date `days` days after 1970-01-01
civil_year(days) ==
    LET z == days + 719468
        era == z \div 146097
        doe == z - era * 146097
        yoe == (doe - doe \div 1460 + doe \div 36524 - doe \div 146096) \div 365
        doy == doe - (365 * yoe + yoe \div 4 - yoe \div 100)
        mp == (5 * doy + 2) \div 153
    IN  yoe + era * 400 + (IF mp < 10 THEN 0 ELSE 1)

\* date.fromtimestamp(timestamp / 1000).year: the local date of the instant
local_year(timestamp, z) ==
    LET seconds == timestamp * 3600
    IN  civil_year((seconds + z * 3600) \div 86400)

\* earthquake['properties']['time'], then date.fromtimestamp(...).year
get_year(earthquake, z) ==
    IF earthquake.props # "dict" THEN Raise("TypeError")
    ELSE IF earthquake.time.kind = "absent" THEN Raise("KeyError")
    ELSE IF earthquake.time.kind \in {"null", "str"} THEN Raise("TypeError")
    ELSE IF earthquake.time.kind = "big" THEN Raise("OverflowError")
    ELSE Ok(local_year(earthquake.time.val, z))

\* earthquake['properties']['mag'] (the same code in both scripts); the
\* value is returned as it is, null and strings included
get_magnitude(earthquake) ==
    IF earthquake.props # "dict" THEN Raise("TypeError")
    ELSE IF earthquake.mag.kind = "absent" THEN Raise("KeyError")
    ELSE Ok(earthquake.mag)

Unchanged(st, e) ==
    [quakes |-> st.quakes, mags |-> st.mags, order |-> st.order, exc |-> e]

\* aggregate_record with the count incremented before get_magnitude is
\* called: a record without a magnitude is counted
aggregate_record_count_first(quake, z, st) ==
    LET y == get_year(quake, z)
        m == get_magnitude(quake)
        counted == Put(st.quakes, y.val,
                       IF y.val \in DOMAIN st.quakes
                       THEN st.quakes[y.val] + 1 ELSE 1)
    IN  IF y.exc \in {"KeyError", "TypeError"} THEN Unchanged(st, "skip")
        ELSE IF y.exc # "none" THEN Unchanged(st, y.exc)
        ELSE IF m.exc \in {"KeyError", "TypeError"}
             THEN [quakes |-> counted, mags |-> st.mags, order |-> st.order,
                   exc |-> "skip"]
        ELSE [quakes |-> counted,
              mags |-> Put(st.mags, y.val,
                           IF y.val \in DOMAIN st.mags
                           THEN Append(st.mags[y.val], m.val) ELSE <<m.val>>),
              order |-> IF y.val \in DOMAIN st.quakes THEN st.order
                        ELSE Append(st.order, y.val),
              exc |-> "none"]

\* body of the loop of get_annual_statistics on one record; st holds the
\* two defaultdicts and their key order.  exc is "skip" when the except
\* clause caught the exception, and the exception's name when it escaped.
aggregate_record(quake, z, st) ==
    LET y == get_year(quake, z)
        m == get_magnitude(quake)
    IN  IF y.exc \in {"KeyError", "TypeError"} THEN Unchanged(st, "skip")
        ELSE IF y.exc # "none" THEN Unchanged(st, y.exc)
        ELSE IF m.exc \in {"KeyError", "TypeError"} THEN Unchanged(st, "skip")
        ELSE [quakes |-> Put(st.quakes, y.val,
                             IF y.val \in DOMAIN st.quakes
                             THEN st.quakes[y.val] + 1 ELSE 1),
              mags |-> Put(st.mags, y.val,
                           IF y.val \in DOMAIN st.mags
                           THEN Append(st.mags[y.val], m.val) ELSE <<m.val>>),
              order |-> IF y.val \in DOMAIN st.quakes THEN st.order
                        ELSE Append(st.order, y.val),
              exc |-> "none"]

RECURSIVE SumVals(_)
SumVals(s) == IF s = << >> THEN 0 ELSE Head(s).val + SumVals(Tail(s))

\* np_mean with np.sum in its place
np_sum(magnitudes) ==
    IF \E k \in DOMAIN magnitudes : magnitudes[k].kind # "num"
    THEN Raise("TypeError")
    ELSE Ok([num |-> SumVals(magnitudes), den |-> 1])

\* np.mean(magnitudes): a TypeError when an element is no number
np_mean(magnitudes) ==
    IF \E k \in DOMAIN magnitudes : magnitudes[k].kind # "num"
    THEN Raise("TypeError")
    ELSE Ok([num |-> SumVals(magnitudes), den |-> Len(magnitudes)])

\* the dict comprehension of get_annual_statistics over magnitudes_per_year
averages(mags) ==
    IF \E y \in DOMAIN mags : np_mean(mags[y]).exc # "none"
    THEN Raise("TypeError")
    ELSE Ok([y \in DOMAIN mags |-> np_mean(mags[y]).val])

(***************************************************************************)
(* plot_earthquakes.py: print_summary                                      *)
(***************************************************************************)
RECURSIVE SumCounts(_)
SumCounts(d) ==
    IF DOMAIN d = {} THEN 0
    ELSE LET k == CHOOSE x \in DOMAIN d : TRUE
         IN  d[k] + SumCounts([x \in (DOMAIN d) \ {k} |-> d[x]])

\* sorted(d.keys())[0] and [-1]
SortedFirst(d) == CHOOSE y \in DOMAIN d : \A x \in DOMAIN d : y <= x

SortedLast(d) == CHOOSE y \in DOMAIN d : \A x \in DOMAIN d : y >= x

\* max(d, key=d.get): the first key in iteration order with the largest value
py_max(d, order) ==
    LET k == CHOOSE k \in DOMAIN order :
                 /\ \A j \in DOMAIN order : d[order[j]] <= d[order[k]]
                 /\ \A j \in 1..(k - 1) : d[order[j]] < d[order[k]]
    IN  order[k]

\* min(d, key=d.get): the first key in iteration order with the smallest value
py_min(d, order) ==
    LET k == CHOOSE k \in DOMAIN order :
                 /\ \A j \in DOMAIN order : d[order[j]] >= d[order[k]]
                 /\ \A j \in 1..(k - 1) : d[order[j]] > d[order[k]]
    IN  order[k]

\* what print_summary prints; years[0] raises IndexError on an empty dict
print_summary(d, order) ==
    IF DOMAIN d = {} THEN Raise("IndexError")
    ELSE Ok([first |-> SortedFirst(d), last |-> SortedLast(d),
             total |-> SumCounts(d), years |-> Cardinality(DOMAIN d),
             max_year |-> py_max(d, order), min_year |-> py_min(d, order)])

(***************************************************************************)
(* earthquakes.py: get_location, get_maximum                               *)
(***************************************************************************)
\* the initial value of max_magnitude: -1, in tenths
InitialMax == -10

\* (coordinates[1], coordinates[0]); None['geometry'] is a TypeError
get_location(features, ref) ==
    IF ref = 0 THEN Raise("TypeError")
    ELSE Ok(<<features[ref].coordinates[2], features[ref].coordinates[1]>>)

\* maximum_step with `magnitude >= max_magnitude`: a later record of equal
\* magnitude replaces the earlier one
maximum_step_ge(features, k, st) ==
    LET m == get_magnitude(features[k])
    IN  IF m.exc # "none" THEN [mag |-> st.mag, ref |-> st.ref, exc |-> m.exc]
        ELSE IF m.val.kind # "num"
             THEN [mag |-> st.mag, ref |-> st.ref, exc |-> "TypeError"]
        ELSE IF m.val.val >= st.mag
             THEN [mag |-> m.val.val, ref |-> k, exc |-> "none"]
        ELSE [mag |-> st.mag, ref |-> st.ref, exc |-> "none"]

\* body of the loop of get_maximum on record k; st holds max_magnitude and
\* max_earthquake.  `magnitude > max_magnitude` is a TypeError when the
\* magnitude is null or a string.
maximum_step(features, k, st) ==
    LET m == get_magnitude(features[k])
    IN  IF m.exc # "none" THEN [mag |-> st.mag, ref |-> st.ref, exc |-> m.exc]
        ELSE IF m.val.kind # "num"
             THEN [mag |-> st.mag, ref |-> st.ref, exc |-> "TypeError"]
        ELSE IF m.val.val > st.mag
             THEN [mag |-> m.val.val, ref |-> k, exc |-> "none"]
        ELSE [mag |-> st.mag, ref |-> st.ref, exc |-> "none"]

(***************************************************************************)
(* The HTTP request                                                        *)
(***************************************************************************)
\* response.raise_for_status(): HTTPError for a 4xx or 5xx status
raise_for_status(status) == status >= 400 /\ status < 600

\* the request failed: no response, or a response whose status is not 2xx
RequestFailed(n) == ~n.connected \/ n.status < 200 \/ n.status > 299

NetOutcomes ==
    {[connected |-> FALSE, status |-> 0]}
        \cup {[connected |-> TRUE, status |-> s] : s \in Statuses}

NoNet == [connected |-> FALSE, status |-> -1]

(***************************************************************************)
(* The runs                                                                *)
(***************************************************************************)
\* The locals of get_annual_statistics and of get_maximum are given the
\* values their function sets on entry.  earthquakes.py never reads the
\* time zone, so its runs are taken in one.
Init ==
    /\ script \in Scripts
    /\ tz \in TimeZones
    /\ script = "eq" => tz = 0
    /\ pc = "get_data"
    /\ net = NoNet
    /\ source = "none"
    /\ data = << >>
    /\ i = 1
    /\ quakes_per_year = EmptyDict
    /\ magnitudes_per_year = EmptyDict
    /\ key_order = << >>
    /\ avg_magnitudes = EmptyDict
    /\ summary = << >>
    /\ max_magnitude = InitialMax
    /\ max_earthquake = 0
    /\ max_location = << >>
    /\ error = "none"

\* plot_earthquakes.get_data: a RequestException (no connection, or the
\* HTTPError of raise_for_status) is caught and create_sample_data called
PlotGetData ==
    /\ script = "plot" /\ pc = "get_data" /\ error = "none"
    /\ \E n \in NetOutcomes :
        /\ net' = n
        /\ IF n.connected /\ ~raise_for_status(n.status)
           THEN \E doc \in Docs : data' = doc /\ source' = "api"
           ELSE \E draws \in SampleDraws :
                    data' = create_sample_data(draws, tz) /\ source' = "sample"
    /\ pc' = "aggregate"
    /\ UNCHANGED <<script, tz, i, quakes_per_year, magnitudes_per_year,
                   key_order, avg_magnitudes, summary, max_magnitude,
                   max_earthquake, max_location, error>>

\* one iteration of the loop of get_annual_statistics
AggregateStep ==
    /\ script = "plot" /\ pc = "aggregate" /\ error = "none"
    /\ i <= Len(data)
    /\ LET r == aggregate_record(data[i], tz,
                    [quakes |-> quakes_per_year, mags |-> magnitudes_per_year,
                     order |-> key_order])
       IN  /\ quakes_per_year' = r.quakes
           /\ magnitudes_per_year' = r.mags
           /\ key_order' = r.order
           /\ IF r.exc \in {"none", "skip"}
              THEN i' = i + 1 /\ error' = error
              ELSE i' = i /\ error' = r.exc
    /\ UNCHANGED <<script, tz, pc, net, source, data, avg_magnitudes, summary,
                   max_magnitude, max_earthquake, max_location>>

\* the end of get_annual_statistics: the averages, and the return
AggregateReturn ==
    /\ script = "plot" /\ pc = "aggregate" /\ error = "none"
    /\ i > Len(data)
    /\ LET a == averages(magnitudes_per_year)
       IN  IF a.exc = "none"
           THEN avg_magnitudes' = a.val /\ pc' = "print_summary"
                /\ error' = error
           ELSE avg_magnitudes' = avg_magnitudes /\ pc' = pc
                /\ error' = a.exc
    /\ UNCHANGED <<script, tz, net, source, data, i, quakes_per_year,
                   magnitudes_per_year, key_order, summary, max_magnitude,
                   max_earthquake, max_location>>

\* print_summary, called by the main block
PrintSummary ==
    /\ script = "plot" /\ pc = "print_summary" /\ error = "none"
    /\ LET r == print_summary(quakes_per_year, key_order)
       IN  IF r.exc = "none"
           THEN summary' = r.val /\ pc' = "done" /\ error' = error
           ELSE summary' = summary /\ pc' = pc /\ error' = r.exc
    /\ UNCHANGED <<script, tz, net, source, data, i, quakes_per_year,
                   magnitudes_per_year, key_order, avg_magnitudes,
                   max_magnitude, max_earthquake, max_location>>

\* earthquakes.get_data: nothing is caught.  A failed connection raises
\* ConnectionError; the body of an error response is no JSON document, so
\* response.json() raises.
EqGetData ==
    /\ script = "eq" /\ pc = "get_data" /\ error = "none"
    /\ \E n \in NetOutcomes :
        /\ net' = n
        /\ IF ~n.connected
           THEN data' = data /\ source' = source /\ pc' = pc
                /\ error' = "ConnectionError"
           ELSE IF n.status = 200
           THEN \E doc \in Docs :
                    /\ data' = doc /\ source' = "api"
                    /\ pc' = "get_maximum" /\ error' = error
           ELSE data' = data /\ source' = source /\ pc' = pc
                /\ error' = "JSONDecodeError"
    /\ UNCHANGED <<script, tz, i, quakes_per_year, magnitudes_per_year,
                   key_order, avg_magnitudes, summary, max_magnitude,
                   max_earthquake, max_location>>

\* one iteration of the loop of get_maximum
MaximumStep ==
    /\ script = "eq" /\ pc = "get_maximum" /\ error = "none"
    /\ i <= Len(data)
    /\ LET r == maximum_step(data, i,
                             [mag |-> max_magnitude, ref |-> max_earthquake])
       IN  /\ max_magnitude' = r.mag
           /\ max_earthquake' = r.ref
           /\ IF r.exc = "none"
              THEN i' = i + 1 /\ error' = error
              ELSE i' = i /\ error' = r.exc
    /\ UNCHANGED <<script, tz, pc, net, source, data, quakes_per_year,
                   magnitudes_per_year, key_order, avg_magnitudes, summary,
                   max_location>>

\* the end of get_maximum: get_location(max_earthquake), and the return
MaximumReturn ==
    /\ script = "eq" /\ pc = "get_maximum" /\ error = "none"
    /\ i > Len(data)
    /\ LET r == get_location(data, max_earthquake)
       IN  IF r.exc = "none"
           THEN max_location' = r.val /\ pc' = "done" /\ error' = error
           ELSE max_location' = max_location /\ pc' = pc /\ error' = r.exc
    /\ UNCHANGED <<script, tz, net, source, data, i, quakes_per_year,
                   magnitudes_per_year, key_order, avg_magnitudes, summary,
                   max_magnitude, max_earthquake>>

Next ==
    \/ PlotGetData
    \/ AggregateStep
    \/ AggregateReturn
    \/ PrintSummary
    \/ EqGetData
    \/ MaximumStep
    \/ MaximumReturn

Spec == Init /\ [][Next]_vars

(***************************************************************************)
(* Vocabulary of the properties                                            *)
(***************************************************************************)
\* a record with a numeric time (of a representable date) and a numeric
\* magnitude
WellFormed(q) ==
    q.props = "dict" /\ q.time.kind = "num" /\ q.mag.kind = "num"

\* a record with a missing or malformed time or magnitude: an absent key,
\* a null or non-numeric value, or properties that is no dict
Malformed(q) ==
    \/ q.props # "dict"
    \/ q.time.kind \in {"absent", "null", "str"}
    \/ q.mag.kind \in {"absent", "null", "str"}

\* a record the loop of get_annual_statistics does not skip: properties is a
\* dict that holds a numeric time and a mag key
NotSkipped(q) ==
    q.props = "dict" /\ q.time.kind = "num" /\ q.mag.kind # "absent"

\* get_annual_statistics has returned its two dicts
Returned == script = "plot" /\ pc \in {"print_summary", "done"}

\* the well-formed records among the first n whose derived year is y
ValidOfYear(n, y) ==
    { k \in 1..n : /\ WellFormed(data[k])
                   /\ get_year(data[k], tz) = Ok(y) }

\* the years of the well-formed records
ValidYears ==
    { get_year(data[k], tz).val : k \in { j \in DOMAIN data : WellFormed(data[j]) } }

RECURSIVE SumMags(_)
SumMags(ks) ==
    IF ks = {} THEN 0
    ELSE LET k == CHOOSE x \in ks : TRUE
         IN  data[k].mag.val + SumMags(ks \ {k})

(***************************************************************************)
(* Properties                                                              *)
(***************************************************************************)
\* C1, as stated: when get_annual_statistics has returned, the per-year
\* counts sum to the number of records of the input list.
C1_SumEqualsTotal ==
    Returned => SumCounts(quakes_per_year) = Len(data)

\* C1, amended: when get_annual_statistics has returned, the per-year counts
\* sum to the number of records of the list that were not skipped, those
\* whose properties hold a numeric time and a mag key (the total, when the
\* list has no other record).
C1_SumEqualsValid ==
    Returned =>
        SumCounts(quakes_per_year)
            = Cardinality({ k \in DOMAIN data : NotSkipped(data[k]) })

\* C1: a returned aggregation of a list holding well-formed records and a
\* skipped one
C1_Witness ==
    /\ Returned /\ source = "api"
    /\ \E k \in DOMAIN data : ~NotSkipped(data[k])
    /\ \E k \in DOMAIN data : NotSkipped(data[k])
    /\ SumCounts(quakes_per_year) = Len(data) - 1

\* C2: once get_maximum has scanned a non-empty list of records with finite
\* magnitudes, it has selected a record, and the selected magnitude is >=
\* the magnitude of every record of the list.
C2_MaximumSelected ==
    ( /\ script = "eq" /\ pc = "get_maximum" /\ i > Len(data)
      /\ Len(data) > 0
      /\ \A k \in DOMAIN data : data[k].props = "dict" /\ data[k].mag.kind = "num" )
    => /\ error = "none"
       /\ max_earthquake \in DOMAIN data
       /\ \A k \in DOMAIN data : data[k].mag.val <= max_magnitude

\* C3: while a list of well-formed and malformed records is aggregated, no
\* exception escapes and the malformed records already met have changed no
\* count and no magnitude list: the counts are those of the well-formed
\* records, and the lists hold their magnitudes only.
C3_MalformedSkipped ==
    ( /\ script = "plot" /\ pc = "aggregate"
      /\ \A k \in DOMAIN data : WellFormed(data[k]) \/ Malformed(data[k]) )
    => /\ error = "none"
       /\ DOMAIN quakes_per_year = DOMAIN magnitudes_per_year
       /\ \A y \in DOMAIN quakes_per_year :
            /\ quakes_per_year[y] = Cardinality(ValidOfYear(i - 1, y))
            /\ Len(magnitudes_per_year[y]) = Cardinality(ValidOfYear(i - 1, y))

\* C4: when the request has failed (no connection, or a status outside 2xx)
\* get_data has raised nothing and has returned the generated dataset, and
\* the run is at the aggregation or beyond.
C4_FallbackOnFailure ==
    (net # NoNet /\ RequestFailed(net))
    => error = "none" /\ source = "sample" /\ pc # "get_data"

\* C5: when no record of the list is valid (the list is empty, or every
\* record is malformed), get_annual_statistics raises nothing and its two
\* dicts are empty.
C5_EmptyStatistics ==
    ( /\ script = "plot" /\ pc \in {"aggregate", "print_summary", "done"}
      /\ \A k \in DOMAIN data : Malformed(data[k]) )
    => /\ pc = "aggregate" => error = "none"
       /\ Returned => quakes_per_year = EmptyDict /\ avg_magnitudes = EmptyDict

\* C6: the year a record is grouped under in this run is the year get_year
\* returns for the same timestamp in a run on any other machine.
C6_SameYearAcrossRuns ==
    (script = "plot" /\ source = "api")
    => \A k \in DOMAIN data : \A z \in TimeZones :
           get_year(data[k], z) = get_year(data[k], tz)

\* C7: when get_annual_statistics has returned, the two dicts have the same
\* years, the years of the valid records; each year's count is the number of
\* valid records of that year and its average is the sum of their magnitudes
\* over that count.
C7_PerYearStatistics ==
    Returned =>
        /\ DOMAIN quakes_per_year = ValidYears
        /\ DOMAIN avg_magnitudes = ValidYears
        /\ \A y \in ValidYears :
            /\ quakes_per_year[y] = Cardinality(ValidOfYear(Len(data), y))
            /\ avg_magnitudes[y] =
                   [num |-> SumMags(ValidOfYear(Len(data), y)),
                    den |-> Cardinality(ValidOfYear(Len(data), y))]

\* C7: returned statistics with a year of two records of different
\* magnitudes, and a skipped record
C7_Witness ==
    /\ Returned /\ source = "api"
    /\ \E k \in DOMAIN data : Malformed(data[k])
    /\ \E y \in DOMAIN avg_magnitudes :
           /\ quakes_per_year[y] = 2
           /\ avg_magnitudes[y] = [num |-> 65, den |-> 2]

\* C8: print_summary completes on any returned statistics, and what it
\* prints is the sum of the counts, the smallest and the largest year, a
\* year of largest count and a year of smallest count.
C8_SummaryCompletes ==
    /\ (script = "plot" /\ pc = "print_summary") => error = "none"
    /\ (script = "plot" /\ pc = "done") =>
          /\ summary.total = SumCounts(quakes_per_year)
          /\ \A y \in DOMAIN quakes_per_year :
                /\ summary.first <= y /\ y <= summary.last
                /\ quakes_per_year[y] <= quakes_per_year[summary.max_year]
                /\ quakes_per_year[y] >= quakes_per_year[summary.min_year]

\* C9: the location get_maximum returns is (coordinates[1], coordinates[0])
\* of the first record of the list whose magnitude is the returned maximum.
C9_FirstMaximumLocation ==
    (script = "eq" /\ pc = "done") =>
        \E k \in DOMAIN data :
            /\ data[k].mag.val = max_magnitude
            /\ \A j \in 1..(k - 1) : data[j].mag.val # max_magnitude
            /\ max_location = <<data[k].coordinates[2], data[k].coordinates[1]>>

\* C9: get_maximum has returned on a list where a later record at another
\* place has the magnitude of the maximum too
C9_Witness ==
    /\ script = "eq" /\ pc = "done"
    /\ \E j, k \in DOMAIN data :
           /\ j < k
           /\ data[j].mag.val = max_magnitude
           /\ data[k].mag.val = max_magnitude
           /\ data[j].coordinates # data[k].coordinates

\* C10: every record of create_sample_data has a time and a magnitude, a
\* derived year in 2000..2018 and a magnitude in 1.0..6.0; its aggregation
\* raises nothing and skips no record, and the returned counts sum to the
\* number of generated records and are not empty.
C10_SampleDataValid ==
    source = "sample" =>
        /\ Len(data) = NumSamples
        /\ \A k \in DOMAIN data :
            /\ data[k].props = "dict"
            /\ data[k].time.kind = "num" /\ data[k].mag.kind = "num"
            /\ get_year(data[k], tz).exc = "none"
            /\ get_year(data[k], tz).val \in 2000..2018
            /\ data[k].mag.val \in 10..60
        /\ pc = "aggregate" =>
            /\ error = "none"
            /\ SumCounts(quakes_per_year) = i - 1
        /\ Returned =>
            /\ SumCounts(quakes_per_year) = NumSamples
            /\ DOMAIN quakes_per_year # {}
            /\ DOMAIN avg_magnitudes # {}

\* C10: the returned aggregation of a generated dataset with a record on
\* the first day and a record on the last day of the range
C10_Witness ==
    /\ source = "sample" /\ Returned
    /\ \E j, k \in DOMAIN data :
           /\ get_year(data[j], tz).val = 2000
           /\ get_year(data[k], tz).val = 2018
    /\ SumCounts(quakes_per_year) = NumSamples

====
